---- MODULE Spec2Model ----
(***************************************************************************)
(* A model of giantpoplar/pool: the blocking connection pool              *)
(* (blockingpool.go), its bounded queue (deque.go), the wrapped           *)
(* connection and the configuration (config.go / conn.go).                *)
(*                                                                         *)
(* Goroutines: the callers (Get, Close, MarkUnusable / a failed Read or   *)
(* Write), the idle sweeper started by NewBlockingPool, and one goroutine *)
(* that calls Update.  Every step is one synchronisation point of the     *)
(* code: an RLock / Lock of the pool's sync.RWMutex, a send or receive on *)
(* the gate channel, one critical section of the deque's mutex.           *)
(*                                                                         *)
(* Time is not modelled: the timer of blockingDeque.pop fires only while  *)
(* the gate is empty, and whether time.Since(lastAccess) exceeds          *)
(* IdleTimeout is an input of each checkIdle call.                        *)
(*                                                                         *)
(* Spec is the pool with Updates of MaxCap, TimeoutSpec the pool with      *)
(* Updates that keep MaxCap, CallerSpec the callers alone under an        *)
(* observer of sequential runs, MergeSpec Config.Merge on its own.        *)
(***************************************************************************)
EXTENDS Integers, Sequences, FiniteSets, TLC

\* ------------------------------------------------------------------ bounds
\* Largest MaxCap a caller passes to NewBlockingPool or Update.
MaxCapBound == 2
\* Connections the factory makes in one behaviour: once it has made this
\* many, every later dial fails.
MaxDials == 2
\* Update calls in one behaviour.
MaxUpdates == 1
\* Operations remembered by the observer of uninterrupted runs.
MaxRun == 4

\* Largest value of a tunable in the Configs Config.Merge is applied to.
MaxTunable == 2

\* --------------------------------------------------------------- constants
\* CacheMethod (iota constants of config.go).
UndefinedCacheMethod == 0
FIFO == 1
FILO == 2

\* What pop and the type assertion of Get can see in place of a connection.
\* Absent: the untyped nil deque.pop returns for an empty list.
Absent == 0
\* NilConn: the nil *WrappedConn that Close hands to putBottom; stored in an
\* interface{} it is a list element of its own, not an empty slot.
NilConn == -1
\* Results of Get that are not connections.
ErrTimeout == -2
DialErr == -3
Panicked == -4
\* errDequeFull, which blockingDeque.append / prepend return to putBottom /
\* putTop.
ErrDequeFull == -5

Callers == {"c1", "c2"}
NoOne == "none"
Handles == 1..MaxDials

VARIABLES
    input,        \* the Config handed to NewBlockingPool
    cfg,          \* blockingPool.Config
    gate,         \* tokens in blockingDeque.gate
    gateCap,      \* cap(blockingDeque.gate)
    dq,           \* deque.container, front first
    dqCap,        \* deque.capacity
    walking,      \* the deque's mutex is held by walk
    rlocks,       \* read locks of blockingPool.RWMutex held, per goroutine
    wwait,        \* Update has called Lock and waits for the readers
    pc,           \* each caller's position
    recv,         \* the connection a caller's Close was called on
    arg,          \* the item a caller's Get popped or its put pushes
    transport,    \* per connection: "none", "open", "closed"
    unusable,     \* WrappedConn.unusable
    owner,        \* which caller holds the connection
    spc,          \* the sweeper's position
    widx,         \* the element walk is at
    upc,          \* the Update goroutine's position
    ucfg,         \* the merged Config Update holds while waiting for Lock
    nUpdates,     \* Update calls so far
    crashed,      \* a goroutine panicked: the process is gone
    out,          \* what the step just taken returned to its caller
    hist,         \* observer: the latest operations that ran one after another
    merged        \* a call of Config.Merge on its own: receiver, argument, results

vars == <<input, cfg, gate, gateCap, dq, dqCap, walking, rlocks, wwait, pc,
          recv, arg, transport, unusable, owner, spc, widx, upc, ucfg,
          nUpdates, crashed, out, hist, merged>>

\* ------------------------------------------------------------------ Config
defaultConfig ==
    [CacheMethod |-> FIFO, InitCap |-> 0, MaxCap |-> 1, IdleTimeout |-> 3,
     WaitTimeout |-> 3, IOTimeout |-> 30, DialTimeout |-> 30]

\* Adopt with zero taken for a value.
Adopt_Zero(cur, new) == new >= 0 /\ new # cur

\* One `if` of Merge: new.X > 0 && new.X != result.X.
Adopt(cur, new) == new > 0 /\ new # cur

\* Config.Merge: the five tunables are adopted when positive and different;
\* CacheMethod and InitCap are never read from the new Config.
Merge(c, new) ==
    [cfg |-> [c EXCEPT
                !.MaxCap = IF Adopt(c.MaxCap, new.MaxCap) THEN new.MaxCap ELSE @,
                !.DialTimeout = IF Adopt(c.DialTimeout, new.DialTimeout)
                                THEN new.DialTimeout ELSE @,
                !.IOTimeout = IF Adopt(c.IOTimeout, new.IOTimeout)
                              THEN new.IOTimeout ELSE @,
                !.WaitTimeout = IF Adopt(c.WaitTimeout, new.WaitTimeout)
                                THEN new.WaitTimeout ELSE @,
                !.IdleTimeout = IF Adopt(c.IdleTimeout, new.IdleTimeout)
                                THEN new.IdleTimeout ELSE @],
     changed |-> \/ Adopt(c.MaxCap, new.MaxCap)
                 \/ Adopt(c.DialTimeout, new.DialTimeout)
                 \/ Adopt(c.IOTimeout, new.IOTimeout)
                 \/ Adopt(c.WaitTimeout, new.WaitTimeout)
                 \/ Adopt(c.IdleTimeout, new.IdleTimeout)]

\* The Configs a caller constructs a pool with: NewBlockingPool rejects
\* InitCap > MaxCap, so those never make a pool.
InputConfigs ==
    {c \in [CacheMethod : {FIFO, FILO}, InitCap : 0..MaxCapBound,
            MaxCap : 0..MaxCapBound, IdleTimeout : {0}, WaitTimeout : {0},
            IOTimeout : {0}, DialTimeout : {0}] : c.InitCap <= c.MaxCap}

\* The Configs handed to Update: a MaxCap, or none (0), and no timeout.
UpdateConfigs ==
    [CacheMethod : {UndefinedCacheMethod}, InitCap : {0}, MaxCap : 0..MaxCapBound,
     IdleTimeout : {0}, WaitTimeout : {0}, IOTimeout : {0}, DialTimeout : {0}]

\* A WaitTimeout other than the default one.
OtherWait == defaultConfig.WaitTimeout + 1

\* The Configs handed to an Update that is to change a timeout: a MaxCap,
\* or none, and a WaitTimeout, or none.
TimeoutConfigs ==
    [CacheMethod : {UndefinedCacheMethod}, InitCap : {0}, MaxCap : 0..MaxCapBound,
     IdleTimeout : {0}, WaitTimeout : {0, OtherWait}, IOTimeout : {0},
     DialTimeout : {0}]

\* The five fields Config.Merge looks at.
Tunables == {"MaxCap", "DialTimeout", "IOTimeout", "WaitTimeout", "IdleTimeout"}

\* Receivers of Merge: a pool's Config, every tunable positive.
MergeReceivers ==
    [CacheMethod : {FIFO}, InitCap : {0}, MaxCap : 1..MaxTunable,
     IdleTimeout : 1..MaxTunable, WaitTimeout : 1..MaxTunable,
     IOTimeout : 1..MaxTunable, DialTimeout : 1..MaxTunable]

\* Arguments of Merge: any Config a caller writes, negative, zero or
\* positive tunables, with a CacheMethod and an InitCap of its own.
MergeArguments ==
    [CacheMethod : {FILO}, InitCap : {1}, MaxCap : (-1)..MaxTunable,
     IdleTimeout : (-1)..MaxTunable, WaitTimeout : (-1)..MaxTunable,
     IOTimeout : (-1)..MaxTunable, DialTimeout : (-1)..MaxTunable]

\* No call of Merge on its own.
NoMerge == [step |-> 0]

\* ------------------------------------------------------------------- deque
\* deque.append / deque.prepend: dropped when the list is at capacity.
DequeAppend(q, cap, item) ==
    IF cap < 0 \/ Len(q) < cap THEN Append(q, item) ELSE q

DequePrepend(q, cap, item) ==
    IF cap < 0 \/ Len(q) < cap THEN <<item>> \o q ELSE q

\* deque.pop: the back element, or the untyped nil.
DequeBack(q) == IF q = <<>> THEN Absent ELSE q[Len(q)]

\* deque.pop without the container.Remove.
DequeRest_Keep(q) == q

DequeRest(q) == IF q = <<>> THEN q ELSE SubSeq(q, 1, Len(q) - 1)

\* newBlockingDeque(maxCap, nilCap): an empty list and nilCap tokens (none
\* when nilCap is not positive).
NewGate(nilCap) == IF nilCap > 0 THEN nilCap ELSE 0

\* ------------------------------------------------------------- constructor
\* NewBlockingPool: the Config is merged into defaultConfig, the gate gets
\* MaxCap - InitCap tokens, and InitCap connections are dialled and
\* prepended (each prepend adds its token).
RECURSIVE Prefill(_)
Prefill(n) == IF n <= 0 THEN <<>> ELSE <<n>> \o Prefill(n - 1)

NewBlockingPool(c) ==
    LET m == Merge(defaultConfig, c).cfg
    IN  [cfg |-> m,
         gateCap |-> m.MaxCap,
         gate |-> NewGate(m.MaxCap - m.InitCap) + m.InitCap,
         dqCap |-> m.MaxCap,
         dq |-> Prefill(m.InitCap),
         dialled |-> m.InitCap]

\* Connections made so far; the next one is Dialled + 1.
Dialled == Cardinality({h \in Handles : transport[h] # "none"})


\* ---------------------------------------------------------------- observer
\* out is the return of the operation that ended in the step just taken:
\* who called, which operation, the connection it was about (the item Get
\* popped, the receiver of Close), what Get returned (for a Close:
\* ErrDequeFull when its append / prepend found the gate full), and how
\* often the operation called the factory.  Any other step leaves NoOut.
NoOut == [who |-> NoOne, op |-> "none", h |-> Absent, res |-> Absent,
          dials |-> 0]

GetOut(p, item, res, dials) ==
    [who |-> p, op |-> "get", h |-> item, res |-> res, dials |-> dials]

CloseOut(p, h, usable) ==
    [who |-> p, op |-> IF usable THEN "close" ELSE "closeUnusable", h |-> h,
     res |-> Absent, dials |-> 0]

\* A Close whose append / prepend found the gate full.
FullOut(p, h, usable) == [CloseOut(p, h, usable) EXCEPT !.res = ErrDequeFull]

MarkOut(p, h) ==
    [who |-> p, op |-> "mark", h |-> h, res |-> Absent, dials |-> 0]

\* hist.run lists the latest caller operations that ran alone, each from a
\* state with nothing in progress to its return; any overlap, sweep or
\* Update empties it.  hist.sinceInit: the list is everything that happened
\* since construction.  hist.solo is the caller running alone now.  The
\* observer is attached (hist.on) in CallerSpec only.
Lost == [hist EXCEPT !.run = <<>>, !.solo = NoOne, !.sinceInit = FALSE]

Quiescent ==
    /\ \A p \in Callers : pc[p] = "idle"
    /\ spc = "sleep"
    /\ upc = "idle"

Push(ev) ==
    IF Len(hist.run) < MaxRun
    THEN [hist EXCEPT !.run = Append(@, ev), !.solo = NoOne]
    ELSE [hist EXCEPT !.run = Append(Tail(@), ev), !.solo = NoOne,
                      !.sinceInit = FALSE]

\* A caller begins an operation.
Begin(p) ==
    /\ out' = NoOut
    /\ hist' = IF hist.on /\ Quiescent THEN [hist EXCEPT !.solo = p] ELSE Lost

\* A step inside an operation.
Inside == out' = NoOut /\ UNCHANGED hist

\* A caller's operation returns.
Return(p, ev) ==
    /\ out' = ev
    /\ hist' = IF hist.on /\ hist.solo = p THEN Push(ev) ELSE Lost

\* An operation of one step.
Alone(ev) ==
    /\ out' = ev
    /\ hist' = IF hist.on /\ Quiescent THEN Push(ev) ELSE Lost

\* A step of the sweeper or of Update.
Background == out' = NoOut /\ hist' = Lost

\* -------------------------------------------------------------------- Init
Constructed(c, observed) ==
    LET p == NewBlockingPool(c)
    IN  /\ input = c
        /\ cfg = p.cfg
        /\ gate = p.gate
        /\ gateCap = p.gateCap
        /\ dq = p.dq
        /\ dqCap = p.dqCap
        /\ transport = [h \in Handles |->
                          IF h <= p.dialled THEN "open" ELSE "none"]
        /\ unusable = [h \in Handles |-> FALSE]
        /\ owner = [h \in Handles |-> NoOne]
        /\ walking = FALSE
        /\ rlocks = [g \in Callers \cup {"sweep"} |-> 0]
        /\ wwait = FALSE
        /\ pc = [q \in Callers |-> "idle"]
        /\ recv = [q \in Callers |-> Absent]
        /\ arg = [q \in Callers |-> Absent]
        /\ spc = "sleep"
        /\ widx = 0
        /\ upc = "idle"
        /\ ucfg = p.cfg
        /\ nUpdates = 0
        /\ crashed = FALSE
        /\ out = NoOut
        /\ hist = [on |-> observed, run |-> <<>>, solo |-> NoOne,
                   sinceInit |-> observed]

\* A pool made from any Config NewBlockingPool accepts, observed.
InitAny == merged = NoMerge /\ \E c \in InputConfigs : Constructed(c, TRUE)

\* A pool made from a Config that sets MaxCap alone.
Init ==
    /\ merged = NoMerge
    /\ \E c \in InputConfigs :
        /\ c.InitCap = defaultConfig.InitCap
        /\ c.CacheMethod = defaultConfig.CacheMethod
        /\ Constructed(c, FALSE)

\* --------------------------------------------------------------- RWMutex
\* sync.RWMutex: RLock blocks once a writer has called Lock; Lock returns
\* when the readers that were in have left.
CanRLock == ~wwait

Goroutines == Callers \cup {"sweep"}

RECURSIVE SumLocks(_)
SumLocks(S) ==
    IF S = {} THEN 0
    ELSE LET g == CHOOSE x \in S : TRUE IN rlocks[g] + SumLocks(S \ {g})

Readers == SumLocks(Goroutines)

callerFrame == <<input, merged, spc, widx, upc, ucfg, nUpdates, walking, wwait>>
queueShape == <<cfg, gateCap, dqCap>>
connVars == <<transport, unusable, owner>>

\* --------------------------------------------------------------------- Get
\* Get: p.RLock(), then conns.pop(WaitTimeout).
GetStart(p) ==
    /\ ~crashed
    /\ pc[p] = "idle"
    /\ CanRLock
    /\ rlocks' = [rlocks EXCEPT ![p] = 1]
    /\ pc' = [pc EXCEPT ![p] = "get_pop"]
    /\ Begin(p)
    /\ UNCHANGED <<callerFrame, queueShape, connVars, gate, dq, recv, arg,
                   crashed>>

\* PopTimeout with q.deque.pop() called ahead of the select, so that a pop
\* that times out has removed the back element all the same.
PopTimeout_PopsFirst(p) ==
    /\ ~crashed
    /\ pc[p] = "get_pop"
    /\ gate = 0
    /\ dq' = DequeRest(dq)
    /\ rlocks' = [rlocks EXCEPT ![p] = 0]
    /\ pc' = [pc EXCEPT ![p] = "idle"]
    /\ Return(p, GetOut(p, Absent, ErrTimeout, 0))
    /\ UNCHANGED <<callerFrame, queueShape, connVars, gate, recv, arg, crashed>>

\* blockingDeque.pop, case <-time.After(timeout): ErrTimeout, and Get
\* returns it (the deferred RUnlock runs).
PopTimeout(p) ==
    /\ ~crashed
    /\ pc[p] = "get_pop"
    /\ gate = 0
    /\ rlocks' = [rlocks EXCEPT ![p] = 0]
    /\ pc' = [pc EXCEPT ![p] = "idle"]
    /\ Return(p, GetOut(p, Absent, ErrTimeout, 0))
    /\ UNCHANGED <<callerFrame, queueShape, connVars, gate, dq, recv, arg,
                   crashed>>

\* blockingDeque.pop, case <-q.gate: one token is taken.
PopGate(p) ==
    /\ ~crashed
    /\ pc[p] = "get_pop"
    /\ gate > 0
    /\ gate' = gate - 1
    /\ pc' = [pc EXCEPT ![p] = "get_dq"]
    /\ Inside
    /\ UNCHANGED <<callerFrame, queueShape, connVars, dq, recv, arg, rlocks,
                   crashed>>

\* NeedsDial with the test of conn.unusable left out.
NeedsDial_OkOnly(item) == item = Absent

\* Get, line 101: !ok || conn.unusable, for an item that is not NilConn.
NeedsDial(item) == item = Absent \/ unusable[item]

\* q.deque.pop() under the deque's mutex, then Get's type assertion: a
\* NilConn passes it (ok is true) and conn.unusable dereferences nil.
DequePop(p) ==
    /\ ~crashed
    /\ pc[p] = "get_dq"
    /\ ~walking
    /\ LET item == DequeBack(dq)
       IN  /\ dq' = DequeRest(dq)
           /\ IF item = NilConn
              THEN /\ crashed' = TRUE
                   /\ pc' = [pc EXCEPT ![p] = "panicked"]
                   /\ rlocks' = [rlocks EXCEPT ![p] = 0]
                   /\ Return(p, GetOut(p, item, Panicked, 0))
                   /\ UNCHANGED <<arg, owner>>
              ELSE IF NeedsDial(item)
              THEN /\ pc' = [pc EXCEPT ![p] = "get_dial"]
                   /\ arg' = [arg EXCEPT ![p] = item]
                   /\ Inside
                   /\ UNCHANGED <<crashed, rlocks, owner>>
              ELSE /\ pc' = [pc EXCEPT ![p] = "idle"]
                   /\ owner' = [owner EXCEPT ![item] = p]
                   /\ rlocks' = [rlocks EXCEPT ![p] = 0]
                   /\ Return(p, GetOut(p, item, item, 0))
                   /\ UNCHANGED <<crashed, arg>>
    /\ UNCHANGED <<callerFrame, queueShape, transport, unusable, gate, recv>>

\* NewWrapConn: p.RLock() again, the factory call, and Get's return.
GetDial(p) ==
    /\ ~crashed
    /\ pc[p] = "get_dial"
    /\ CanRLock
    /\ \E ok \in {Dialled < MaxDials, FALSE} :
         LET h == Dialled + 1
         IN  IF ok
             THEN /\ transport' = [transport EXCEPT ![h] = "open"]
                  /\ owner' = [owner EXCEPT ![h] = p]
                  /\ Return(p, GetOut(p, arg[p], h, 1))
             ELSE /\ Return(p, GetOut(p, arg[p], DialErr, 1))
                  /\ UNCHANGED <<transport, owner>>
    /\ pc' = [pc EXCEPT ![p] = "idle"]
    /\ arg' = [arg EXCEPT ![p] = Absent]
    /\ rlocks' = [rlocks EXCEPT ![p] = 0]
    /\ UNCHANGED <<callerFrame, queueShape, unusable, gate, dq, recv, crashed>>

\* ------------------------------------------------------------------- Close
\* WrappedConn.Close: an unusable connection is destroyed and putBottom(nil)
\* called; a usable one goes to put, which takes the read lock and picks
\* putBottom or putTop by CacheMethod.
Close(p, h) ==
    /\ ~crashed
    /\ pc[p] = "idle"
    /\ owner[h] = p
    /\ recv' = [recv EXCEPT ![p] = h]
    /\ IF unusable[h]
       THEN /\ transport' = [transport EXCEPT ![h] = "closed"]
            /\ owner' = [owner EXCEPT ![h] = NoOne]
            /\ arg' = [arg EXCEPT ![p] = NilConn]
            /\ pc' = [pc EXCEPT ![p] = "putBottom"]
            /\ UNCHANGED rlocks
       ELSE /\ CanRLock
            /\ rlocks' = [rlocks EXCEPT ![p] = 1]
            /\ arg' = [arg EXCEPT ![p] = h]
            /\ pc' = [pc EXCEPT ![p] = IF cfg.CacheMethod = FIFO
                                       THEN "putBottom" ELSE "putTop"]
            /\ UNCHANGED <<transport, owner>>
    /\ Begin(p)
    /\ UNCHANGED <<callerFrame, queueShape, unusable, gate, dq, crashed>>

Release(item) ==
    IF item \in Handles THEN [owner EXCEPT ![item] = NoOne] ELSE owner

\* Put with the deque operation done also when the gate is full.
Put_PushWhenFull(p) ==
    /\ ~crashed
    /\ pc[p] \in {"putBottom", "putTop"}
    /\ CanRLock
    /\ owner' = Release(arg[p])
    /\ gate' = IF gate < gateCap THEN gate + 1 ELSE gate
    /\ rlocks' = [rlocks EXCEPT ![p] = @ + 1]
    /\ pc' = [pc EXCEPT ![p] = IF pc[p] = "putBottom"
                               THEN "append" ELSE "prepend"]
    /\ Inside
    /\ UNCHANGED <<callerFrame, queueShape, transport, unusable, dq, arg,
                   recv, crashed>>

\* putBottom / putTop: p.RLock() again, then the select of
\* blockingDeque.append / prepend: a token is sent, or the gate is full and
\* errDequeFull is returned, which putBottom and putTop drop, so that put
\* returns nil and Close does not destroy the connection.
Put(p) ==
    /\ ~crashed
    /\ pc[p] \in {"putBottom", "putTop"}
    /\ CanRLock
    /\ owner' = Release(arg[p])
    /\ IF gate < gateCap
       THEN /\ gate' = gate + 1
            /\ rlocks' = [rlocks EXCEPT ![p] = @ + 1]
            /\ pc' = [pc EXCEPT ![p] = IF pc[p] = "putBottom"
                                       THEN "append" ELSE "prepend"]
            /\ Inside
            /\ UNCHANGED <<arg, recv>>
       ELSE /\ rlocks' = [rlocks EXCEPT ![p] = 0]
            /\ pc' = [pc EXCEPT ![p] = "idle"]
            /\ arg' = [arg EXCEPT ![p] = Absent]
            /\ recv' = [recv EXCEPT ![p] = Absent]
            /\ Return(p, FullOut(p, recv[p], arg[p] # NilConn))
            /\ UNCHANGED gate
    /\ UNCHANGED <<callerFrame, queueShape, transport, unusable, dq, crashed>>

\* q.deque.append(item) / q.deque.prepend(item) under the deque's mutex;
\* the bool they return is not looked at.  Then the deferred RUnlocks.
DequePush(p) ==
    /\ ~crashed
    /\ pc[p] \in {"append", "prepend"}
    /\ ~walking
    /\ dq' = IF pc[p] = "append"
             THEN DequeAppend(dq, dqCap, arg[p])
             ELSE DequePrepend(dq, dqCap, arg[p])
    /\ rlocks' = [rlocks EXCEPT ![p] = 0]
    /\ pc' = [pc EXCEPT ![p] = "idle"]
    /\ arg' = [arg EXCEPT ![p] = Absent]
    /\ recv' = [recv EXCEPT ![p] = Absent]
    /\ Return(p, CloseOut(p, recv[p], arg[p] # NilConn))
    /\ UNCHANGED <<callerFrame, queueShape, connVars, gate, crashed>>

\* MarkUnusable, or a Read / Write that returned an error.
MarkUnusable(p, h) ==
    /\ ~crashed
    /\ pc[p] = "idle"
    /\ owner[h] = p
    /\ ~unusable[h]
    /\ unusable' = [unusable EXCEPT ![h] = TRUE]
    /\ Alone(MarkOut(p, h))
    /\ UNCHANGED <<callerFrame, queueShape, transport, owner, gate, dq, pc,
                   recv, arg, rlocks, crashed>>

\* ------------------------------------------------------------- idle sweep
\* checkIdleConn: p.RLock(), then conns.Walk, which locks the deque.
SweepStart ==
    /\ ~crashed
    /\ spc = "sleep"
    /\ CanRLock
    /\ ~walking
    /\ rlocks' = [rlocks EXCEPT !["sweep"] = 1]
    /\ walking' = TRUE
    /\ widx' = 1
    /\ spc' = "walk"
    /\ Background
    /\ UNCHANGED <<input, merged, queueShape, connVars, gate, dq, wwait, pc, recv,
                   arg, upc, ucfg, nUpdates, crashed>>

\* WalkItem with the expired element taken out of the list.
WalkItem_Removes ==
    /\ ~crashed
    /\ spc = "walk"
    /\ widx <= Len(dq)
    /\ LET item == dq[widx]
       IN  IF item = NilConn
           THEN /\ crashed' = TRUE
                /\ spc' = "panicked"
                /\ UNCHANGED <<widx, transport, unusable, dq>>
           ELSE /\ CanRLock
                /\ \E expired \in BOOLEAN :
                     IF expired
                     THEN /\ unusable' = [unusable EXCEPT ![item] = TRUE]
                          /\ transport' = [transport EXCEPT ![item] = "closed"]
                          /\ dq' = SubSeq(dq, 1, widx - 1)
                                       \o SubSeq(dq, widx + 1, Len(dq))
                          /\ widx' = widx
                     ELSE /\ widx' = widx + 1
                          /\ UNCHANGED <<transport, unusable, dq>>
                /\ UNCHANGED <<crashed, spc>>
    /\ Background
    /\ UNCHANGED <<input, merged, queueShape, owner, gate, walking, rlocks,
                   wwait, pc, recv, arg, upc, ucfg, nUpdates>>

\* walkFn on one element: the type assertion, then checkIdle, which reads
\* IdleTimeout through p.config() (p.RLock() again) and, when the
\* connection has been idle longer, marks it unusable and destroys it.  A
\* NilConn element makes c.lastAccess dereference nil.
WalkItem ==
    /\ ~crashed
    /\ spc = "walk"
    /\ widx <= Len(dq)
    /\ LET item == dq[widx]
       IN  IF item = NilConn
           THEN /\ crashed' = TRUE
                /\ spc' = "panicked"
                /\ UNCHANGED <<widx, transport, unusable>>
           ELSE /\ CanRLock
                /\ \E expired \in BOOLEAN :
                     IF expired
                     THEN /\ unusable' = [unusable EXCEPT ![item] = TRUE]
                          /\ transport' = [transport EXCEPT ![item] = "closed"]
                     ELSE UNCHANGED <<transport, unusable>>
                /\ widx' = widx + 1
                /\ UNCHANGED <<crashed, spc>>
    /\ Background
    /\ UNCHANGED <<input, merged, queueShape, owner, gate, dq, walking, rlocks,
                   wwait, pc, recv, arg, upc, ucfg, nUpdates>>

\* The end of walk: the deque's mutex and the read lock are released.
WalkEnd ==
    /\ ~crashed
    /\ spc = "walk"
    /\ widx > Len(dq)
    /\ walking' = FALSE
    /\ rlocks' = [rlocks EXCEPT !["sweep"] = 0]
    /\ widx' = 0
    /\ spc' = "sleep"
    /\ Background
    /\ UNCHANGED <<input, merged, queueShape, connVars, gate, dq, wwait, pc, recv,
                   arg, upc, ucfg, nUpdates, crashed>>

\* ------------------------------------------------------------------ Update
\* Update: Merge, and when something changed, p.Lock().  An Update that
\* changes nothing returns at once and is not counted.
Update(c) ==
    /\ ~crashed
    /\ upc = "idle"
    /\ nUpdates < MaxUpdates
    /\ LET m == Merge(cfg, c)
       IN  IF m.changed
           THEN /\ wwait' = TRUE
                /\ ucfg' = m.cfg
                /\ upc' = "lock"
                /\ nUpdates' = nUpdates + 1
                /\ Background
           ELSE UNCHANGED <<wwait, ucfg, upc, nUpdates, out, hist>>
    /\ UNCHANGED <<input, merged, queueShape, connVars, gate, dq, walking, rlocks, pc,
                   recv, arg, spc, widx, crashed>>

\* UpdateLocked with the queue replaced whatever the merged MaxCap is.
UpdateLocked_Rebuilds ==
    /\ ~crashed
    /\ upc = "lock"
    /\ Readers = 0
    /\ gateCap' = ucfg.MaxCap
    /\ gate' = NewGate(ucfg.MaxCap - cfg.MaxCap)
    /\ dqCap' = ucfg.MaxCap
    /\ dq' = <<>>
    /\ cfg' = ucfg
    /\ wwait' = FALSE
    /\ upc' = "idle"
    /\ Background
    /\ UNCHANGED <<input, merged, connVars, walking, rlocks, pc, recv, arg,
                   spc, widx, ucfg, nUpdates, crashed>>

\* Lock returns once no reader is in; a changed MaxCap makes a new
\* blockingDeque with c.MaxCap - p.MaxCap tokens; then p.Config = c and
\* the deferred Unlock.
UpdateLocked ==
    /\ ~crashed
    /\ upc = "lock"
    /\ Readers = 0
    /\ IF ucfg.MaxCap # cfg.MaxCap
       THEN /\ gateCap' = ucfg.MaxCap
            /\ gate' = NewGate(ucfg.MaxCap - cfg.MaxCap)
            /\ dqCap' = ucfg.MaxCap
            /\ dq' = <<>>
       ELSE UNCHANGED <<gateCap, gate, dqCap, dq>>
    /\ cfg' = ucfg
    /\ wwait' = FALSE
    /\ upc' = "idle"
    /\ Background
    /\ UNCHANGED <<input, merged, connVars, walking, rlocks, pc, recv, arg, spc,
                   widx, ucfg, nUpdates, crashed>>

\* -------------------------------------------------------------------- Spec
CallerStep(p) ==
    \/ PopTimeout(p)
    \/ PopGate(p)
    \/ DequePop(p)
    \/ GetDial(p)
    \/ Put(p)
    \/ DequePush(p)

Next ==
    \/ \E p \in Callers : GetStart(p)
    \/ \E p \in Callers : PopTimeout(p)
    \/ \E p \in Callers : PopGate(p)
    \/ \E p \in Callers : DequePop(p)
    \/ \E p \in Callers : GetDial(p)
    \/ \E p \in Callers, h \in Handles : Close(p, h)
    \/ \E p \in Callers : Put(p)
    \/ \E p \in Callers : DequePush(p)
    \/ \E p \in Callers, h \in Handles : MarkUnusable(p, h)
    \/ SweepStart
    \/ WalkItem
    \/ WalkEnd
    \/ \E c \in UpdateConfigs : Update(c)
    \/ UpdateLocked

Spec == Init /\ [][Next]_vars

\* The callers alone, on a pool made from any Config.
CallerNext ==
    \/ \E p \in Callers : GetStart(p)
    \/ \E p \in Callers : PopTimeout(p)
    \/ \E p \in Callers : PopGate(p)
    \/ \E p \in Callers : DequePop(p)
    \/ \E p \in Callers : GetDial(p)
    \/ \E p \in Callers, h \in Handles : Close(p, h)
    \/ \E p \in Callers : Put(p)
    \/ \E p \in Callers : DequePush(p)
    \/ \E p \in Callers, h \in Handles : MarkUnusable(p, h)

CallerSpec == InitAny /\ [][CallerNext]_vars

\* The whole pool, with Updates whose merged Config keeps MaxCap: they
\* change WaitTimeout or nothing.
TimeoutUpdate(c) == Merge(cfg, c).cfg.MaxCap = cfg.MaxCap /\ Update(c)

TimeoutNext ==
    \/ \E p \in Callers : GetStart(p)
    \/ \E p \in Callers : PopTimeout(p)
    \/ \E p \in Callers : PopGate(p)
    \/ \E p \in Callers : DequePop(p)
    \/ \E p \in Callers : GetDial(p)
    \/ \E p \in Callers, h \in Handles : Close(p, h)
    \/ \E p \in Callers : Put(p)
    \/ \E p \in Callers : DequePush(p)
    \/ \E p \in Callers, h \in Handles : MarkUnusable(p, h)
    \/ SweepStart
    \/ WalkItem
    \/ WalkEnd
    \/ \E c \in TimeoutConfigs : TimeoutUpdate(c)
    \/ UpdateLocked

TimeoutSpec == Init /\ [][TimeoutNext]_vars

\* The Go scheduler runs every runnable goroutine: a step that stays
\* enabled is taken.  Nothing obliges a caller to begin an operation.
FairSpec ==
    /\ Spec
    /\ \A p \in Callers : WF_vars(CallerStep(p))
    /\ WF_vars(WalkItem)
    /\ WF_vars(WalkEnd)
    /\ WF_vars(UpdateLocked)

\* --------------------------------------------------- Config.Merge alone
\* result, changed := cur.Merge(new), for any receiver and argument.
MergeInit ==
    /\ Constructed(defaultConfig, FALSE)
    /\ \E c \in MergeReceivers, n \in MergeArguments :
         merged = [step |-> 0, cur |-> c, new |-> n]

poolVars == <<input, cfg, gate, gateCap, dq, dqCap, walking, rlocks, wwait,
              pc, recv, arg, transport, unusable, owner, spc, widx, upc,
              ucfg, nUpdates, crashed, out, hist>>

MergeOnce ==
    /\ merged.step = 0
    /\ LET m == Merge(merged.cur, merged.new)
       IN  merged' = [step |-> 1, cur |-> merged.cur, new |-> merged.new,
                      res |-> m.cfg, changed |-> m.changed]
    /\ UNCHANGED poolVars

\* result2, changed2 := result.Merge(new): the same argument once more.
MergeAgain ==
    /\ merged.step = 1
    /\ LET m == Merge(merged.res, merged.new)
       IN  merged' = [step |-> 2, cur |-> merged.cur, new |-> merged.new,
                      res |-> merged.res, changed |-> merged.changed,
                      res2 |-> m.cfg, changed2 |-> m.changed]
    /\ UNCHANGED poolVars

MergeNext == MergeOnce \/ MergeAgain

MergeSpec == MergeInit /\ [][MergeNext]_vars

\* ------------------------------------------------------------ definitions
Held == {h \in Handles : owner[h] \in Callers}

Queued == {dq[i] : i \in 1..Len(dq)}

\* Connections that exist and are not destroyed, held or queued.
LiveTransports ==
    {h \in Handles : transport[h] = "open" /\ (h \in Held \/ h \in Queued)}

NoUpdate == nUpdates = 0

\* ------------------------------------------------------------------ claims
\* C1: with MaxCap = N and no Update, the live transports held by callers or
\* queued in the deque never number more than N.
C1_LiveTransportsWithinMaxCap ==
    NoUpdate => Cardinality(LiveTransports) <= cfg.MaxCap

\* C2: the connections held by callers plus the tokens in the gate never
\* exceed the current MaxCap, also after Update.
C2_HeldPlusTokensWithinMaxCap == Cardinality(Held) + gate <= cfg.MaxCap

\* C3: with no Update, when nothing is in progress and no caller holds a
\* connection, the gate holds MaxCap tokens: no slot has been leaked.
C3_NoSlotLeaked ==
    (NoUpdate /\ Quiescent /\ Held = {}) => gate = cfg.MaxCap

\* C4: no call blocks forever: every Get, Close, Update and sweep pass that
\* has begun comes to its end (a call cut short by a panic, which is C10's
\* matter, is set aside).
C4_EveryCallCompletes ==
    /\ \A p \in Callers : (pc[p] # "idle") ~> (pc[p] = "idle" \/ crashed)
    /\ (upc = "lock") ~> (upc = "idle" \/ crashed)
    /\ (spc = "walk") ~> (spc = "sleep" \/ crashed)

\* C5: a Get that waits at an empty gate can always take its timeout, and
\* while the gate stays empty the only step it takes is the return of
\* ErrTimeout, which calls no factory, makes no connection and leaves the
\* gate and the deque as they were.
C5_TimeoutWhenExhausted ==
    [][\A p \in Callers :
         (pc[p] = "get_pop" /\ gate = 0 /\ ~crashed) =>
           /\ ENABLED PopTimeout(p)
           /\ pc'[p] # "get_pop" =>
             /\ out' = GetOut(p, Absent, ErrTimeout, 0)
             /\ pc'[p] = "idle"
             /\ gate' = gate
             /\ dq' = dq
             /\ transport' = transport
             /\ owner' = owner]_vars

\* A Get has just returned ErrTimeout from a pool all of whose capacity is
\* checked out.
C5_Witness ==
    /\ out.op = "get"
    /\ out.res = ErrTimeout
    /\ gate = 0
    /\ Cardinality(Held) = cfg.MaxCap

\* C9: a connection Get returns is usable and open, and a Get that popped an
\* unusable connection has called the factory once and returns the newly
\* connection dialled last (or the dial error when the factory fails),
\* never the one it popped.
C9_GetNeverReturnsUnusable ==
    out.op = "get" =>
        /\ out.res \in Handles =>
             /\ ~unusable[out.res]
             /\ transport[out.res] = "open"
             /\ owner[out.res] = out.who
        /\ (out.h \in Handles /\ unusable[out.h]) =>
             /\ out.dials = 1
             /\ out.res # out.h
             /\ out.res \in {Dialled, DialErr}

\* A Get has popped a connection the sweep had marked and returned a new one.
C9_Witness ==
    /\ out.op = "get"
    /\ out.h \in Handles
    /\ unusable[out.h]
    /\ transport[out.h] = "closed"
    /\ out.res \in Handles
    /\ out.res # out.h
    /\ out.dials = 1

\* C10: after Close of an unusable connection neither a later Get nor a
\* later sweep panics.
C10_NoPanicAfterUnusableClose == ~crashed

\* The operations of hist.run from position i on.
LastOps(n) == SubSeq(hist.run, Len(hist.run) - n + 1, Len(hist.run))

AllGets(n) == \A i \in 1..n : hist.run[i].op = "get"

\* C6: a pool constructed with InitCap = k has called the factory k times and
\* queues k connections; the first k Gets after construction return
\* connections without a factory call, and the (k+1)-th Get, when MaxCap > k,
\* calls the factory exactly once.
C6_InitCapPrefills ==
    hist.sinceInit =>
        /\ (hist.run = <<>> /\ hist.solo = NoOne) =>
             /\ Dialled = input.InitCap
             /\ Cardinality(Queued) = input.InitCap
        /\ \A i \in 1..Len(hist.run) :
             AllGets(i) =>
                 /\ i <= input.InitCap =>
                      /\ hist.run[i].res \in Handles
                      /\ hist.run[i].dials = 0
                 /\ (i = input.InitCap + 1 /\ input.MaxCap > input.InitCap) =>
                      hist.run[i].dials = 1

\* C7: after Close of A and then Close of B, the next two Gets return A then
\* B in a pool constructed with CacheMethod FILO, and B then A in one
\* constructed with CacheMethod FIFO.
C7_ConfiguredOrderHonoured ==
    Len(hist.run) >= 4 =>
        LET r == LastOps(4)
            A == r[1].h
            B == r[2].h
        IN  (/\ r[1].op = "close"
             /\ r[2].op = "close"
             /\ A # B
             /\ r[3].op = "get"
             /\ r[4].op = "get") =>
                IF input.CacheMethod = FILO
                THEN r[3].res = A /\ r[4].res = B
                ELSE r[3].res = B /\ r[4].res = A

\* C8: in a pool constructed with the default CacheMethod, a Get that
\* follows the Close of a usable connection with nothing in between returns
\* that connection and calls no factory.
C8_CloseThenGetReuses ==
    (Len(hist.run) >= 2 /\ input.CacheMethod = defaultConfig.CacheMethod) =>
        LET r == LastOps(2)
        IN  (r[1].op = "close" /\ r[2].op = "get") =>
                /\ r[2].res = r[1].h
                /\ r[2].dials = 0

\* C11: a Close whose push finds the gate full ends with the connection's
\* transport closed, and when any Close of a usable connection returns, the
\* connection is in the deque or its transport is closed.
C11_RejectedCloseDestroys ==
    [][/\ \A p \in Callers :
            (/\ pc[p] \in {"putBottom", "putTop"}
             /\ arg[p] \in Handles
             /\ gate = gateCap
             /\ pc'[p] = "idle") => transport'[arg[p]] = "closed"
       /\ out'.op = "close" =>
            \/ \E i \in 1..Len(dq') : dq'[i] = out'.h
            \/ transport'[out'.h] = "closed"]_vars

\* C12: Merge returns, for each of the five tunables, the argument's value
\* when it is positive and differs from the receiver's and the receiver's
\* value otherwise; changed is true exactly when some tunable was adopted;
\* merging the same argument into the result returns the result again with
\* changed false.
C12_MergeAdoptsPositiveChanges ==
    merged.step >= 1 =>
        /\ \A f \in Tunables :
             merged.res[f] = IF merged.new[f] > 0 /\ merged.new[f] # merged.cur[f]
                             THEN merged.new[f] ELSE merged.cur[f]
        /\ merged.changed <=>
             \E f \in Tunables :
                 merged.new[f] > 0 /\ merged.new[f] # merged.cur[f]
        /\ merged.step = 2 =>
             /\ merged.res2 = merged.res
             /\ ~merged.changed2

\* Merge was called twice with an argument of which one tunable was adopted,
\* one was not positive and one equalled the receiver's.
C12_Witness ==
    /\ merged.step = 2
    /\ merged.changed
    /\ merged.res.MaxCap = merged.new.MaxCap
    /\ merged.res.MaxCap # merged.cur.MaxCap
    /\ merged.new.WaitTimeout <= 0
    /\ merged.res.WaitTimeout = merged.cur.WaitTimeout
    /\ merged.new.DialTimeout = merged.cur.DialTimeout

\* C13: a connection Get returns was held by no caller before, no
\* connection is at once held by a caller and in the deque, and no connection
\* is in the deque twice.  (Close is enabled for the holder only, so each
\* connection got is closed at most once.)
C13_OneOwnerOnePlace ==
    [][/\ (out'.op = "get" /\ out'.res \in Handles) =>
            /\ owner[out'.res] = NoOne
            /\ owner'[out'.res] = out'.who
       /\ \A i \in 1..Len(dq') :
            /\ dq'[i] \in Handles => owner'[dq'[i]] = NoOne
            /\ \A j \in 1..Len(dq') :
                 (dq'[i] \in Handles /\ dq'[j] = dq'[i]) => i = j]_vars

\* A caller has just got, from the deque, a connection that was closed
\* before, while the other caller holds the other connection.
C13_Witness ==
    /\ out.op = "get"
    /\ out.dials = 0
    /\ out.res \in Handles
    /\ owner[out.res] = out.who
    /\ \E h \in Handles : owner[h] \in Callers \ {out.who}

\* C14: after an Update that changed MaxCap, once every connection got has
\* been closed and nothing is in progress, the gate holds as many tokens as
\* the new MaxCap.
C14_UpdateGivesNewCapacity ==
    (nUpdates > 0 /\ Quiescent /\ Held = {} /\ ~crashed) => gate = cfg.MaxCap

\* The callers that are between the gate and the list of one
\* blockingDeque.pop, append or prepend.
InQueueOp == {p \in Callers : pc[p] \in {"get_dq", "append", "prepend"}}

\* C15: whenever no pop, append or prepend is half done, the gate holds at
\* most MaxCap tokens and at least as many tokens as the deque has elements.
C15_GateBoundsQueue ==
    InQueueOp = {} => (gate <= cfg.MaxCap /\ gate >= Len(dq))

\* C16: an append / prepend that has sent its token and returns nil has put
\* its item at the back / the front of the deque.
C16_SuccessfulPushInserts ==
    [][\A p \in Callers :
         /\ (pc[p] = "append" /\ pc'[p] = "idle") => dq' = Append(dq, arg[p])
         /\ (pc[p] = "prepend" /\ pc'[p] = "idle") => dq' = <<arg[p]>> \o dq]_vars

\* C17: an append / prepend that finds MaxCap tokens in the gate returns
\* errDequeFull in that step, and the gate and the deque stay as they were.
C17_FullGateRejects ==
    [][\A p \in Callers :
         (/\ pc[p] \in {"putBottom", "putTop"}
          /\ gate = cfg.MaxCap
          /\ pc'[p] # pc[p]) =>
             /\ out'.who = p
             /\ out'.res = ErrDequeFull
             /\ pc'[p] = "idle"
             /\ gate' = gate
             /\ dq' = dq]_vars

\* A Close of a usable connection has just had errDequeFull from a gate
\* that holds MaxCap tokens.
C17_Witness ==
    /\ out.op = "close"
    /\ out.res = ErrDequeFull
    /\ gate = cfg.MaxCap
    /\ gate = gateCap

\* C18: a step of the idle sweep leaves the deque, the gate and the holders
\* as they are, and changes the unusable flag and the transport only of
\* connections that are in the deque and held by no caller, which it marks
\* and closes; while a pass is walking, no one changes the deque.
C18_SweepFrame ==
    [][/\ (spc' # spc \/ widx' # widx) =>
            /\ dq' = dq
            /\ gate' = gate
            /\ gateCap' = gateCap
            /\ owner' = owner
            /\ \A h \in Handles :
                 (unusable'[h] # unusable[h] \/ transport'[h] # transport[h]) =>
                     /\ h \in Queued
                     /\ owner[h] = NoOne
                     /\ unusable'[h]
                     /\ transport'[h] = "closed"
       /\ (walking /\ walking') => dq' = dq]_vars

\* The sweep has marked and closed the first element of the deque and left
\* it there, while a caller holds a connection that is usable and open.
C18_Witness ==
    /\ spc = "walk"
    /\ widx = 2
    /\ dq[1] \in Handles
    /\ unusable[dq[1]]
    /\ transport[dq[1]] = "closed"
    /\ \E h \in Held : ~unusable[h] /\ transport[h] = "open"

\* C19: an Update whose merged Config has the MaxCap the pool has leaves the
\* gate and the deque as they are, when it is called and when it has the
\* lock and stores the Config.
C19_SameMaxCapKeepsQueue ==
    [][(upc' # upc /\ ucfg'.MaxCap = cfg.MaxCap) =>
           /\ gate' = gate
           /\ gateCap' = gateCap
           /\ dq' = dq
           /\ dqCap' = dqCap
           /\ (upc = "lock") => cfg' = ucfg]_vars

\* After an Update that changed WaitTimeout alone, a Get has returned a
\* connection from the deque without dialling.
C19_Witness ==
    /\ nUpdates > 0
    /\ upc = "idle"
    /\ cfg.WaitTimeout = OtherWait
    /\ out.op = "get"
    /\ out.dials = 0
    /\ out.res \in Handles

====
